---- MODULE Spec2Model ----
(***************************************************************************)
(* Model of src/dynatrace.ts: the key sanitizers, the metric line-protocol *)
(* encoder and its single POST (sendMetrics), and the per-event tag rule   *)
(* extraction, payload selection and POST loop (sendEvents).               *)
(*                                                                         *)
(* Strings that the code inspects character by character are sequences of  *)
(* one-character strings.  Characters outside ASCII are written by their   *)
(* code point ("U+0130").  An optional value (a property that may be       *)
(* undefined) is a record [def, val].                                      *)
(***************************************************************************)
EXTENDS Integers, Sequences, FiniteSets, TLC

VARIABLES
    call,        \* which exported function was invoked: "none" before the call
    pc,          \* position inside the invoked function
    result,      \* state of the returned promise: "pending", "resolved", "rejected"
    metrics,     \* sendMetrics' argument
    events,      \* sendEvents' argument
    i,           \* 1-based position of the for..of loop
    lines,       \* sendMetrics' accumulator `lines`
    requests,    \* every http.post issued so far, in order
    inflight,    \* indexes into requests of the posts not yet settled
    deliveries,  \* the settled posts with their outcome, in settling order
    errors,      \* what core.error was called with
    infos,       \* what core.info was called with
    fn,          \* pure-function specifications: the function applied
    arg,         \* pure-function specifications: its argument
    ret          \* pure-function specifications: its result

vars == <<call, pc, result, metrics, events, i, lines, requests, inflight,
          deliveries, errors, infos, fn, arg, ret>>

-----------------------------------------------------------------------------
(* Bounds *)

MaxLen == 3
MaxTags == 3
MaxMetrics == 2
MaxEvents == 2

-----------------------------------------------------------------------------
(* Optional values and sequence helpers *)

None == [def |-> FALSE, val |-> <<>>]

Some(v) == [def |-> TRUE, val |-> v]

SeqsUpTo(S, n) == UNION {[1..k -> S] : k \in 0..n}

RECURSIVE Flatten(_)
Flatten(ss) == IF ss = <<>> THEN <<>> ELSE Head(ss) \o Flatten(Tail(ss))

-----------------------------------------------------------------------------
(* String.prototype.toLowerCase and the regular expression of the          *)
(* sanitizers, over the characters the model draws strings from.           *)

Chars == {"a", "A", "Z", "0", ".", "_", "-", " ", "U+0130", "U+212A"}

\* toLowerCase of one character: U+0130 (capital I with dot above) lowers to
\* "i" followed by U+0307, U+212A (kelvin sign) lowers to "k".
LowerOf(c) ==
    CASE c = "A" -> <<"a">>
      [] c = "Z" -> <<"z">>
      [] c = "U+0130" -> <<"i", "U+0307">>
      [] c = "U+212A" -> <<"k">>
      [] OTHER -> <<c>>

toLowerCase(s) == Flatten([k \in 1..Len(s) |-> LowerOf(s[k])])

\* The members of the class [.0-9a-z_-] among the characters that occur.
SafeClass == {".", "0", "a", "i", "k", "z", "_", "-"}

\* Canonicalize of a flag-i, non-unicode regular expression: a character is
\* compared by its upper case, except that a non-ASCII character is never
\* mapped to an ASCII one.
Canonicalize(c) ==
    CASE c = "a" -> "A"
      [] c = "i" -> "I"
      [] c = "k" -> "K"
      [] c = "z" -> "Z"
      [] OTHER -> c

\* replace(/[^.0-9a-z_-]/gi, '_')
ReplaceUnsafe(s) ==
    [k \in 1..Len(s) |->
        IF \E m \in SafeClass : Canonicalize(m) = Canonicalize(s[k])
        THEN s[k] ELSE "_"]

safeMetricKeyNoLower(mkey) == ReplaceUnsafe(mkey)

safeMetricKey(mkey) == ReplaceUnsafe(toLowerCase(mkey))

safeDimKey(dkey) == ReplaceUnsafe(toLowerCase(dkey))

safeDimValue(val) == val

-----------------------------------------------------------------------------
(* Tag rule extraction (the loop over e.tags in sendEvents) *)

\* t.split(':'): the pieces between the separators, "" giving one empty piece.
RECURSIVE SplitFrom(_, _, _)
SplitFrom(t, k, cur) ==
    IF k > Len(t) THEN <<cur>>
    ELSE IF t[k] = ":" THEN <<cur>> \o SplitFrom(t, k + 1, <<>>)
    ELSE SplitFrom(t, k + 1, Append(cur, t[k]))

split(t) == SplitFrom(t, 1, <<>>)

Rule(meType, key, value) ==
    [meTypes |-> <<meType>>,
     tags |-> <<[context |-> "CONTEXTLESS", key |-> key, value |-> value]>>]

TagRuleOfSwapped(t) ==
    LET arr == split(t)
    IN  IF Len(arr) = 2 THEN <<Rule(arr[1], arr[2], None)>>
        ELSE IF Len(arr) = 3 THEN <<Rule(arr[1], arr[3], Some(arr[2]))>>
        ELSE <<>>

\* One iteration of the loop: the rules pushed for tag t (none or one).
TagRuleOf(t) ==
    LET arr == split(t)
    IN  IF Len(arr) = 2 THEN <<Rule(arr[1], arr[2], None)>>
        ELSE IF Len(arr) = 3 THEN <<Rule(arr[1], arr[2], Some(arr[3]))>>
        ELSE <<>>

\* tagAttachRules after the loop; e.tags undefined leaves it empty.
TagAttachRules(tags) ==
    IF tags.def
    THEN Flatten([k \in 1..Len(tags.val) |-> TagRuleOf(tags.val[k])])
    ELSE <<>>

TagStrings ==
    { <<"H", ":", "e">>, <<"H", ":", "e", ":", "p">>, <<"H">>,
      <<"A", ":", "B", ":", "C", ":", "D">>, <<>>, <<"e", ":">>,
      <<":", ":">>, <<":", "v">> }

-----------------------------------------------------------------------------
(* Pure-function specifications *)

Idle ==
    /\ call = "none" /\ pc = "idle" /\ result = "pending"
    /\ metrics = <<>> /\ events = <<>> /\ i = 1 /\ lines = <<>>
    /\ requests = <<>> /\ inflight = {} /\ deliveries = <<>>
    /\ errors = <<>> /\ infos = <<>>

ProgramUnchanged ==
    UNCHANGED <<call, pc, result, metrics, events, i, lines, requests,
                inflight, deliveries, errors, infos>>

InitSanitize ==
    /\ Idle
    /\ fn = "none"
    /\ arg \in SeqsUpTo(Chars, MaxLen)
    /\ ret = <<>>

ApplySafeMetricKey ==
    /\ fn = "none"
    /\ fn' = "safeMetricKey"
    /\ ret' = safeMetricKey(arg)
    /\ UNCHANGED arg
    /\ ProgramUnchanged

ApplySafeDimKey ==
    /\ fn = "none"
    /\ fn' = "safeDimKey"
    /\ ret' = safeDimKey(arg)
    /\ UNCHANGED arg
    /\ ProgramUnchanged

ApplySafeDimValue ==
    /\ fn = "none"
    /\ fn' = "safeDimValue"
    /\ ret' = safeDimValue(arg)
    /\ UNCHANGED arg
    /\ ProgramUnchanged

NextSanitize == ApplySafeMetricKey \/ ApplySafeDimKey \/ ApplySafeDimValue

SpecSanitize == InitSanitize /\ [][NextSanitize]_vars

InitTags ==
    /\ Idle
    /\ fn = "none"
    /\ arg \in {None} \cup {Some(ts) : ts \in SeqsUpTo(TagStrings, MaxTags)}
    /\ ret = <<>>

ApplyTagAttachRules ==
    /\ fn = "none"
    /\ fn' = "tagAttachRules"
    /\ ret' = TagAttachRules(arg)
    /\ UNCHANGED arg
    /\ ProgramUnchanged

NextTags == ApplyTagAttachRules

SpecTags == InitTags /\ [][NextTags]_vars

-----------------------------------------------------------------------------
(* The HTTP client: what one http.post can come to *)

\* A response carries message.statusCode, which may be undefined; the client
\* may instead reject with a connection-level exception.
Response(code) == [kind |-> "response", hasStatus |-> TRUE, statusCode |-> code]

ResponseNoStatus == [kind |-> "response", hasStatus |-> FALSE, statusCode |-> 0]

TransportException == [kind |-> "exception", hasStatus |-> FALSE, statusCode |-> 0]

Outcomes ==
    {Response(200), Response(399), Response(400), ResponseNoStatus,
     TransportException}

Url == "https://dt.example"

-----------------------------------------------------------------------------
(* sendMetrics *)

MetricNames == { <<>>, <<"a">>, <<"A", ".", "Z", " ">> }

MetricValues == { <<"1">>, <<"1", ".", "0">> }

\* m.dimensions as Object.entries enumerates it: undefined, or the entries
\* [key, value] in order; a value may be a string, empty, or undefined.
DimensionRecords ==
    { None,
      Some(<<>>),
      Some(<< <<<<"A">>, Some(<<"x">>)>> >>),
      Some(<< <<<<"A">>, Some(<<>>)>>, <<<<"k", " ">>, Some(<<"y">>)>> >>),
      Some(<< <<<<"z">>, Some(<<"y">>)>>, <<<<"a">>, None>>,
              <<<<"U+212A">>, Some(<<"x", " ">>)>> >>) }

MetricRecords ==
    [metric : MetricNames, value : MetricValues, dimensions : DimensionRecords]

\* The body of the inner loop: what one entry appends to `lines`.
DimensionTextAll(entry) ==
    <<",">> \o safeDimKey(entry[1]) \o <<"=", "\"">>
        \o safeDimValue(entry[2].val) \o <<"\"">>

DimensionText(entry) ==
    IF entry[2].def /\ Len(entry[2].val) > 0
    THEN <<",">> \o safeDimKey(entry[1]) \o <<"=", "\"">>
            \o safeDimValue(entry[2].val) \o <<"\"">>
    ELSE <<>>

\* The body of the outer loop: what metric m appends to `lines`.
MetricLine(m) ==
    safeMetricKey(m.metric)
        \o (IF m.dimensions.def
            THEN Flatten([k \in 1..Len(m.dimensions.val) |->
                            DimensionText(m.dimensions.val[k])])
            ELSE <<>>)
        \o <<" ">> \o m.value \o <<"\n">>

MetricsIngestPathV1 == "/api/v1/metrics/ingest"

MetricsIngestPath == "/api/v2/metrics/ingest"

\* The test after the await: the response counts as failed.
MetricsResponseFailed(res) == (~res.hasStatus) \/ res.statusCode >= 400

\* try { await post; check } catch (ex) { core.error(ex) }: what is logged
\* and whether the exception leaves the function.
MetricsCatchRethrow(o) ==
    IF o.kind = "exception"
    THEN [logged |-> <<"transport error">>, rethrow |-> TRUE]
    ELSE IF MetricsResponseFailed(o)
    THEN [logged |-> <<"HTTP request failed">>, rethrow |-> TRUE]
    ELSE [logged |-> <<>>, rethrow |-> FALSE]

MetricsTryCatch(o) ==
    IF o.kind = "exception"
    THEN [logged |-> <<"transport error">>, rethrow |-> FALSE]
    ELSE IF MetricsResponseFailed(o)
    THEN [logged |-> <<"HTTP request failed">>, rethrow |-> FALSE]
    ELSE [logged |-> <<>>, rethrow |-> FALSE]

sendMetrics_Call ==
    /\ pc = "idle"
    /\ call' = "sendMetrics"
    /\ metrics' \in SeqsUpTo(MetricRecords, MaxMetrics)
    /\ lines' = <<>>
    /\ i' = 1
    /\ infos' = Append(infos, "Sending metrics")
    /\ pc' = "encode"
    /\ UNCHANGED <<result, events, requests, inflight, deliveries, errors,
                   fn, arg, ret>>

sendMetrics_Encode ==
    /\ call = "sendMetrics" /\ pc = "encode"
    /\ i <= Len(metrics)
    /\ lines' = lines \o MetricLine(metrics[i])
    /\ i' = i + 1
    /\ UNCHANGED <<call, pc, result, metrics, events, requests, inflight,
                   deliveries, errors, infos, fn, arg, ret>>

sendMetrics_Post ==
    /\ call = "sendMetrics" /\ pc = "encode"
    /\ i > Len(metrics)
    /\ infos' = Append(infos, "lines")
    /\ requests' = Append(requests,
            [url |-> Url, path |-> MetricsIngestPath, body |-> lines,
             payload |-> <<>>, pos |-> 0])
    /\ inflight' = inflight \cup {Len(requests) + 1}
    /\ pc' = "await"
    /\ UNCHANGED <<call, result, metrics, events, i, lines, deliveries,
                   errors, fn, arg, ret>>

sendMetrics_Settle(o) ==
    /\ call = "sendMetrics" /\ pc = "await"
    /\ \E r \in inflight :
        LET c == MetricsTryCatch(o)
        IN  /\ inflight' = inflight \ {r}
            /\ deliveries' = Append(deliveries, [req |-> r, outcome |-> o])
            /\ errors' = errors \o [k \in 1..Len(c.logged) |->
                                        [req |-> r, msg |-> c.logged[k]]]
            /\ IF c.rethrow
               THEN pc' = "thrown" /\ result' = "rejected"
               ELSE pc' = "returned" /\ result' = "resolved"
    /\ UNCHANGED <<call, metrics, events, i, lines, requests, infos,
                   fn, arg, ret>>

-----------------------------------------------------------------------------
(* sendEvents *)

SupportedStandardMisspelt ==
    {"CUSTOM_INFO", "AVAILABILITY_EVENT", "ERROR_EVENT", "PERFORMANCE_EVENT",
     "RESSOURCE_CONTENTION"}

\* The types of the first branch of the if over e.type.
SupportedStandard ==
    {"CUSTOM_INFO", "AVAILABILITY_EVENT", "ERROR_EVENT", "PERFORMANCE_EVENT",
     "RESOURCE_CONTENTION"}

EventTypes ==
    {"CUSTOM_INFO", "AVAILABILITY_EVENT", "ERROR_EVENT", "PERFORMANCE_EVENT",
     "RESOURCE_CONTENTION", "CUSTOM_DEPLOYMENT", "UNKNOWN_TYPE", "custom_info"}

EventsPath == "/api/v1/events"

SomeDimensions == Some(<< <<<<"A">>, Some(<<"x">>)>> >>)

MixedTags ==
    Some(<< <<"H", ":", "e">>, <<"H">>, <<"H", ":", "e", ":", "p">> >>)

FullEvent(type, tags) ==
    [type |-> type, source |-> "GitHub",
     title |-> Some("Successful Test"), description |-> Some("tested"),
     deploymentName |-> Some("GitHub Action"), deploymentVersion |-> Some("v1"),
     deploymentProject |-> Some("repo"), remediationAction |-> Some("None"),
     ciBackLink |-> Some("https://github.com/repo"),
     entities |-> Some(<<"MOBILE_APPLICATION-C061BED4799B41C5">>),
     tags |-> tags, dimensions |-> SomeDimensions]

BareEvent(type) ==
    [type |-> type, source |-> "GitHub",
     title |-> None, description |-> None,
     deploymentName |-> None, deploymentVersion |-> None,
     deploymentProject |-> None, remediationAction |-> None,
     ciBackLink |-> None, entities |-> None, tags |-> None, dimensions |-> None]

EventRecords ==
    {FullEvent(t, None) : t \in EventTypes}
        \cup {FullEvent(t, MixedTags) :
                    t \in {"CUSTOM_INFO", "CUSTOM_DEPLOYMENT", "UNKNOWN_TYPE"}}
        \cup {BareEvent(t) : t \in {"ERROR_EVENT", "CUSTOM_DEPLOYMENT"}}

Member(key, value) == [key |-> key, value |-> value]

AttachRules(e, tagAttachRules) ==
    << Member("entityIds", e.entities), Member("tagRule", Some(tagAttachRules)) >>

\* The if / else-if / else over e.type: whether to send, and the payload as
\* the ordered members of the object literal.
BuildPayload(e, tagAttachRules) ==
    IF e.type \in SupportedStandard
    THEN [send |-> TRUE, info |-> "Preparing a standard event",
          payload |->
            << Member("eventType", Some(e.type)),
               Member("attachRules", Some(AttachRules(e, tagAttachRules))),
               Member("source", Some(e.source)),
               Member("description", e.description),
               Member("title", e.title),
               Member("customProperties", e.dimensions) >>]
    ELSE IF e.type = "CUSTOM_DEPLOYMENT"
    THEN [send |-> TRUE, info |-> "Preparing a custom deployment event",
          payload |->
            << Member("eventType", Some(e.type)),
               Member("attachRules", Some(AttachRules(e, tagAttachRules))),
               Member("source", Some(e.source)),
               Member("deploymentName", e.deploymentName),
               Member("deploymentVersion", e.deploymentVersion),
               Member("deploymentProject", e.deploymentProject),
               Member("remediationAction", e.remediationAction),
               Member("ciBackLink", e.ciBackLink),
               Member("customProperties", e.dimensions) >>]
    ELSE [send |-> FALSE, info |-> "Unsupported event type!", payload |-> <<>>]

IsDefined(m) == m.value.def

\* JSON.stringify of the payload: a member whose value is undefined is left
\* out, in the payload and in its attachRules object; the order is kept.
JSONstringify(payload) ==
    LET inner(m) ==
            IF m.key = "attachRules"
            THEN Member(m.key, Some(SelectSeq(m.value.val, IsDefined)))
            ELSE m
    IN  SelectSeq([k \in 1..Len(payload) |-> inner(payload[k])], IsDefined)

\* for (const e of events): the position visited by the k-th iteration.
IterPositionReversed(evs, k) == Len(evs) + 1 - k

IterPosition(evs, k) == k

EventsResponseFailedStrict(res) == (~res.hasStatus) \/ res.statusCode > 400

EventsResponseFailed(res) == (~res.hasStatus) \/ res.statusCode >= 400

EventsCatchRethrow(o) ==
    IF o.kind = "exception"
    THEN [logged |-> <<"transport error">>, rethrow |-> TRUE]
    ELSE IF EventsResponseFailed(o)
    THEN [logged |-> <<"HTTP request failed">>, rethrow |-> TRUE]
    ELSE [logged |-> <<>>, rethrow |-> FALSE]

EventsTryCatch(o) ==
    IF o.kind = "exception"
    THEN [logged |-> <<"transport error">>, rethrow |-> FALSE]
    ELSE IF EventsResponseFailed(o)
    THEN [logged |-> <<"HTTP request failed">>, rethrow |-> FALSE]
    ELSE [logged |-> <<>>, rethrow |-> FALSE]

sendEvents_Call ==
    /\ pc = "idle"
    /\ call' = "sendEvents"
    /\ events' \in SeqsUpTo(EventRecords, MaxEvents)
    /\ i' = 1
    /\ infos' = Append(infos, "Sending events")
    /\ pc' = "loop"
    /\ UNCHANGED <<result, metrics, lines, requests, inflight, deliveries,
                   errors, fn, arg, ret>>

\* One iteration up to its await (send) or to its end (no send).
sendEvents_Iterate ==
    /\ call = "sendEvents" /\ pc = "loop"
    /\ i <= Len(events)
    /\ LET p == IterPosition(events, i)
           e == events[p]
           b == BuildPayload(e, TagAttachRules(e.tags))
       IN  IF b.send
           THEN /\ infos' = infos \o <<b.info, "payload">>
                /\ requests' = Append(requests,
                        [url |-> Url, path |-> EventsPath,
                         body |-> JSONstringify(b.payload),
                         payload |-> b.payload, pos |-> p])
                /\ inflight' = inflight \cup {Len(requests) + 1}
                /\ pc' = "await"
                /\ UNCHANGED i
           ELSE /\ infos' = Append(infos, b.info)
                /\ i' = i + 1
                /\ UNCHANGED <<requests, inflight, pc>>
    /\ UNCHANGED <<call, result, metrics, events, lines, deliveries, errors,
                   fn, arg, ret>>

\* The awaited post settles; the iteration ends and the loop goes on.
sendEvents_Settle(o) ==
    /\ call = "sendEvents" /\ pc = "await"
    /\ \E r \in inflight :
        LET c == EventsTryCatch(o)
        IN  /\ inflight' = inflight \ {r}
            /\ deliveries' = Append(deliveries, [req |-> r, outcome |-> o])
            /\ errors' = errors \o [k \in 1..Len(c.logged) |->
                                        [req |-> r, msg |-> c.logged[k]]]
            /\ IF c.rethrow
               THEN pc' = "thrown" /\ result' = "rejected" /\ UNCHANGED i
               ELSE pc' = "loop" /\ i' = i + 1 /\ UNCHANGED result
    /\ UNCHANGED <<call, metrics, events, lines, requests, infos, fn, arg, ret>>

sendEvents_Return ==
    /\ call = "sendEvents" /\ pc = "loop"
    /\ i > Len(events)
    /\ pc' = "returned"
    /\ result' = "resolved"
    /\ UNCHANGED <<call, metrics, events, i, lines, requests, inflight,
                   deliveries, errors, infos, fn, arg, ret>>

-----------------------------------------------------------------------------
(* The program: one invocation of sendMetrics or of sendEvents *)

Init ==
    /\ Idle
    /\ fn = "none" /\ arg = <<>> /\ ret = <<>>

Next ==
    \/ sendMetrics_Call
    \/ sendMetrics_Encode
    \/ sendMetrics_Post
    \/ \E o \in Outcomes : sendMetrics_Settle(o)
    \/ sendEvents_Call
    \/ sendEvents_Iterate
    \/ \E o \in Outcomes : sendEvents_Settle(o)
    \/ sendEvents_Return

Spec == Init /\ [][Next]_vars

-----------------------------------------------------------------------------
(* Properties *)

\* How the contract classifies one outcome of a post.
DeliveryFails(o) ==
    \/ o.kind = "exception"
    \/ ~o.hasStatus
    \/ o.statusCode >= 400

Settled(r) == \E k \in DOMAIN deliveries : deliveries[k].req = r

\* The six types the contract names.
SixTypes ==
    {"CUSTOM_INFO", "AVAILABILITY_EVENT", "ERROR_EVENT", "PERFORMANCE_EVENT",
     "RESOURCE_CONTENTION", "CUSTOM_DEPLOYMENT"}

\* The positions of `events` whose iteration has run up to its post or skip.
Visited == IF pc = "await" THEN 1..i ELSE 1..(i - 1)

RequestsFor(p) == {k \in DOMAIN requests : requests[k].pos = p}

\* C1: sendMetrics and sendEvents never reject or throw, whatever the
\* outcome of each post: the promise stays pending until every post has
\* settled and then resolves.
C1_ReturnsNormally ==
    /\ result \in {"pending", "resolved"}
    /\ pc # "thrown"
    /\ (call = "sendMetrics" /\ deliveries # <<>>) => result = "resolved"
    /\ (call = "sendEvents" /\ pc = "returned") => result = "resolved"

C1_Witness ==
    /\ call = "sendMetrics" /\ pc = "returned" /\ result = "resolved"
    /\ Len(deliveries) = 1
    /\ deliveries[1].outcome = TransportException

\* C2: in sendEvents a failed delivery never stops the loop: every
\* supported-type event whose iteration has run has exactly one post, and at
\* the return every position has been visited.
C2_FailureIsolation ==
    call = "sendEvents" =>
        /\ pc \in {"loop", "await", "returned"}
        /\ \A p \in Visited :
            events[p].type \in SixTypes => Cardinality(RequestsFor(p)) = 1
        /\ pc = "returned" => i = Len(events) + 1

C2_Witness ==
    /\ call = "sendEvents" /\ pc = "returned"
    /\ Len(events) = 2 /\ Len(requests) = 2 /\ Len(deliveries) = 2
    /\ DeliveryFails(deliveries[1].outcome)
    /\ requests[2].pos = 2

\* The line-protocol text the contract describes for a list of metrics.
NonEmptyValue(entry) == entry[2].def /\ entry[2].val # <<>>

ExpectedDimension(entry) ==
    <<",">> \o safeDimKey(entry[1]) \o <<"=">> \o <<"\"">> \o entry[2].val \o <<"\"">>

ExpectedLine(m) ==
    LET kept == IF m.dimensions.def
                THEN SelectSeq(m.dimensions.val, NonEmptyValue)
                ELSE <<>>
    IN  safeMetricKey(m.metric)
            \o Flatten([k \in 1..Len(kept) |-> ExpectedDimension(kept[k])])
            \o <<" ">> \o m.value \o <<"\n">>

RECURSIVE ExpectedEncoding(_)
ExpectedEncoding(ms) ==
    IF Len(ms) = 0 THEN <<>>
    ELSE ExpectedEncoding(SubSeq(ms, 1, Len(ms) - 1)) \o ExpectedLine(ms[Len(ms)])

\* C3: one invocation of sendMetrics issues exactly one post, to
\* <url>/api/v2/metrics/ingest, with the whole encoded text as body, also
\* for the empty list and also when the post fails.
C3_ExactlyOnePost ==
    call = "sendMetrics" =>
        /\ pc = "encode" => requests = <<>>
        /\ pc \in {"await", "returned"} =>
            /\ Len(requests) = 1
            /\ requests[1].url = Url
            /\ requests[1].path = "/api/v2/metrics/ingest"
            /\ requests[1].body = ExpectedEncoding(metrics)
        /\ pc = "returned" => Len(deliveries) = 1

C3_Witness ==
    /\ call = "sendMetrics" /\ pc = "returned"
    /\ metrics = <<>>
    /\ Len(requests) = 1 /\ requests[1].body = <<>>
    /\ DeliveryFails(deliveries[1].outcome)

StandardKeys ==
    <<"eventType", "attachRules", "source", "description", "title",
      "customProperties">>

DeploymentKeys ==
    <<"eventType", "attachRules", "source", "deploymentName",
      "deploymentVersion", "deploymentProject", "remediationAction",
      "ciBackLink", "customProperties">>

KeysOf(payload) == [k \in 1..Len(payload) |-> payload[k].key]

\* C4: a post is issued for an event exactly when its type is one of the
\* six supported ones, with the standard or the deployment shape, and
\* customProperties are the event's dimensions; the number of posts is the
\* number of supported events.
C4_PostIffSupported ==
    call = "sendEvents" =>
        /\ \A p \in Visited :
            (RequestsFor(p) # {}) <=> (events[p].type \in SixTypes)
        /\ Len(requests) =
                Cardinality({p \in Visited : events[p].type \in SixTypes})
        /\ \A k \in DOMAIN requests :
            LET e == events[requests[k].pos]
                pl == requests[k].payload
            IN  /\ requests[k].path = "/api/v1/events"
                /\ KeysOf(pl) = IF e.type = "CUSTOM_DEPLOYMENT"
                                THEN DeploymentKeys ELSE StandardKeys
                /\ pl[1].value = Some(e.type)
                /\ pl[Len(pl)].value = e.dimensions
                /\ \A n \in DOMAIN requests[k].body :
                    \E q \in DOMAIN pl : pl[q].key = requests[k].body[n].key

C4_Witness ==
    /\ call = "sendEvents" /\ pc = "returned"
    /\ Len(events) = 2 /\ Len(requests) = 1
    /\ events[1].type = "UNKNOWN_TYPE"
    /\ events[2].type = "RESOURCE_CONTENTION"

\* C5: a delivery has one error logged exactly when its status is >= 400 or
\* absent or the client raised; a status below 400 logs no error.
C5_FailureClassification ==
    /\ \A k \in DOMAIN deliveries :
        Cardinality({n \in DOMAIN errors : errors[n].req = deliveries[k].req})
            = IF DeliveryFails(deliveries[k].outcome) THEN 1 ELSE 0
    /\ \A n \in DOMAIN errors : Settled(errors[n].req)

C5_Witness ==
    /\ call = "sendEvents"
    /\ Len(deliveries) = 2
    /\ deliveries[1].outcome = Response(399)
    /\ deliveries[2].outcome = Response(400)
    /\ Len(errors) = 1 /\ errors[1].req = 2

\* C6: `lines` is the concatenation, in input order, of one line per metric
\* encoded so far: sanitized name, one ,key="value" per dimension with a
\* non-empty value in the record's order, a space, the value, a newline.
C6_LineProtocol ==
    call = "sendMetrics" =>
        /\ lines = ExpectedEncoding(SubSeq(metrics, 1, i - 1))
        /\ (metrics = <<>>) => lines = <<>>
        /\ \A k \in DOMAIN requests : requests[k].body = lines /\ i = Len(metrics) + 1

C6_Witness ==
    /\ call = "sendMetrics" /\ pc = "returned"
    /\ Len(metrics) = 2
    /\ metrics[1].dimensions.def /\ Len(metrics[1].dimensions.val) = 3
    /\ \E k \in 1..3 : ~NonEmptyValue(metrics[1].dimensions.val[k])
    /\ metrics[2].dimensions =
            Some(<< <<<<"A">>, Some(<<>>)>>, <<<<"k", " ">>, Some(<<"y">>)>> >>)
    /\ metrics[1].metric # metrics[2].metric

Colons(t) == Cardinality({k \in DOMAIN t : t[k] = ":"})

NoColon(t) == Colons(t) = 0

TwoOrThreeParts(t) == Colons(t) \in {1, 2}

\* C7: each tag with exactly 2 parts gives a rule with meTypes = [part 1],
\* context CONTEXTLESS, key = part 2 and no value; each tag with exactly 3
\* parts gives one with value = part 3; any other tag gives none; the rules
\* are in the order of the tags kept.
C7_TagRules ==
    fn = "tagAttachRules" =>
        LET kept == IF arg.def THEN SelectSeq(arg.val, TwoOrThreeParts) ELSE <<>>
        IN  /\ Len(ret) = Len(kept)
            /\ \A k \in 1..Len(kept) :
                LET r == ret[k]
                    t == kept[k]
                IN  /\ Len(r.meTypes) = 1 /\ Len(r.tags) = 1
                    /\ r.tags[1].context = "CONTEXTLESS"
                    /\ NoColon(r.meTypes[1]) /\ NoColon(r.tags[1].key)
                    /\ IF Colons(t) = 1
                       THEN /\ ~r.tags[1].value.def
                            /\ t = r.meTypes[1] \o <<":">> \o r.tags[1].key
                       ELSE /\ r.tags[1].value.def
                            /\ NoColon(r.tags[1].value.val)
                            /\ t = r.meTypes[1] \o <<":">> \o r.tags[1].key
                                    \o <<":">> \o r.tags[1].value.val

C7_Witness ==
    /\ fn = "tagAttachRules"
    /\ arg.def /\ Len(arg.val) = 3 /\ Len(ret) = 2
    /\ arg.val[1] = <<"H", ":", "e", ":", "p">>
    /\ arg.val[2] = <<"A", ":", "B", ":", "C", ":", "D">>
    /\ arg.val[3] = <<"H", ":", "e">>
    /\ ret[1].tags[1].value = Some(<<"p">>)
    /\ ~ret[2].tags[1].value.def

\* The characters of [.0-9a-z_-] that lower-casing can produce here.
LowerSafeChars == {".", "0", "a", "i", "k", "z", "_", "-"}

\* C8: safeMetricKey(s) and safeDimKey(s) are lowercase, contain only
\* characters of [.0-9a-z_-], and sanitizing the result again changes nothing.
C8_Sanitizer ==
    /\ fn = "safeMetricKey" =>
        /\ \A k \in DOMAIN ret : ret[k] \in LowerSafeChars
        /\ safeMetricKey(ret) = ret
    /\ fn = "safeDimKey" =>
        /\ \A k \in DOMAIN ret : ret[k] \in LowerSafeChars
        /\ safeDimKey(ret) = ret

C8_Witness ==
    /\ fn = "safeMetricKey"
    /\ arg = <<"A", " ", "U+0130">>
    /\ ret = <<"a", "_", "i", "_">>

\* C9: posts are issued in the order of the input and one at a time: at most
\* one is in flight, it is the latest, and every earlier one has settled.
C9_Sequential ==
    call = "sendEvents" =>
        /\ Cardinality(inflight) <= 1
        /\ \A r \in inflight : r = Len(requests)
        /\ \A k \in DOMAIN requests : k < Len(requests) => Settled(k)
        /\ \A k \in DOMAIN deliveries : deliveries[k].req = k
        /\ \A k, l \in DOMAIN requests :
            k < l => requests[k].pos < requests[l].pos

C9_Witness ==
    /\ call = "sendEvents" /\ pc = "await"
    /\ Len(requests) = 2 /\ inflight = {2}
    /\ Len(deliveries) = 1
    /\ deliveries[1].outcome = ResponseNoStatus

\* C10: every metric line emitted starts with a non-empty sanitized metric
\* name: the name of every metric encoded is non-empty after sanitization.
C10_NameNonEmpty ==
    call = "sendMetrics" =>
        \A k \in 1..(i - 1) : safeMetricKey(metrics[k].metric) # <<>>

====
